---------------------------- MODULE Spec2Model ----------------------------
(***************************************************************************)
(* A model of snap-coin-wallet: the vault codec (src/src/encryption.rs),   *)
(* the command handler with its send flow (src/src/handle_command.rs) and  *)
(* the persistence helpers it uses (src/src/main.rs).                      *)
(*                                                                         *)
(* Strings are sequences of bytes (their UTF-8 encoding), keys are 32-byte *)
(* buffers, Option<T> is a record with a `some` flag.                      *)
(***************************************************************************)
EXTENDS Integers, Sequences, FiniteSets, TLC

(***************************************************************************)
(* Option<T>                                                               *)
(***************************************************************************)
None == [some |-> FALSE]
Some(x) == [some |-> TRUE, val |-> x]

(***************************************************************************)
(* Program constants of the codec.                                         *)
(***************************************************************************)
MaxNameLen == 255
KeyLen == 32
NonceLen == 12
TagLen == 16
ByteMod == 256

Rep(b, n) == [i \in 1..n |-> b]

(***************************************************************************)
(* The vaults, PINs and nonces the codec is exercised on.                  *)
(***************************************************************************)
MaxVaultSize == 2

NameEmpty == <<>>
NameA == <<97>>
NameB == <<98>>
NameEAcute == <<195, 169>>
NameEuro == <<226, 130, 172>>
NameAtLimit == Rep(97, MaxNameLen)
NameOverLimit == Rep(98, MaxNameLen + 1)
NameFarOver == Rep(99, ByteMod + 1)

CodecNames ==
    {NameEmpty, NameA, NameEAcute, NameEuro, NameAtLimit, NameOverLimit, NameFarOver}

Key1 == Rep(1, KeyLen)
Key2 == [i \in 1..KeyLen |-> i - 1]
Keys == {Key1, Key2}

SessionPin == "135792"
OtherPin == "123456"
Pins == {SessionPin, OtherPin, "000000"}

Nonces == {Rep(0, NonceLen), Rep(7, NonceLen)}

VaultsOver(names, maxSize) ==
    UNION {[D -> Keys] : D \in {S \in SUBSET names : Cardinality(S) <= maxSize}}

\* The iteration orders a HashMap with the given key set can produce.
Orders(D) ==
    {o \in [1..Cardinality(D) -> D] : \A i, j \in 1..Cardinality(D) : o[i] = o[j] => i = j}

(***************************************************************************)
(* encryption.rs                                                           *)
(***************************************************************************)
\* Hash::new(format!("snap-coin-wallet-{}", pin)): a collision-free hash is
\* its tagged preimage.
compute_pin_hash_ignoring_pin(pin) == [prefix |-> "snap-coin-wallet-", pin |-> ""]
compute_pin_hash(pin) == [prefix |-> "snap-coin-wallet-", pin |-> pin]

\* Aes256Gcm encrypt: ciphertext and tag, opaque without the key.  `n` is the
\* number of ciphertext bytes present.
aead_encrypt(key, nonce, plaintext) ==
    [key |-> key, nonce |-> nonce, pt |-> plaintext, n |-> Len(plaintext) + TagLen]

\* Aes256Gcm decrypt: the tag verifies only under the sealing key and nonce
\* and only when no byte is missing.
aead_decrypt(key, nonce, ciphertext) ==
    IF /\ ciphertext.key = key
       /\ ciphertext.nonce = nonce
       /\ ciphertext.n = Len(ciphertext.pt) + TagLen
    THEN Some(ciphertext.pt)
    ELSE None

NameTooLong_off_by_one(name_bytes) == Len(name_bytes) > MaxNameLen + 1
NameTooLong(name_bytes) == Len(name_bytes) > MaxNameLen

\* name_bytes.len() as u8
LenByte(name_bytes) == Len(name_bytes) % ByteMod

RECURSIVE SerializeFrom(_, _, _, _)
SerializeFrom(wallets, order, k, serialized) ==
    IF k > Len(order) THEN Some(serialized)
    ELSE LET name_bytes == order[k] IN
         IF NameTooLong(name_bytes) THEN None
         ELSE SerializeFrom(wallets, order, k + 1,
                  serialized \o <<LenByte(name_bytes)>> \o name_bytes \o wallets[name_bytes])

\* `order` is the HashMap's iteration order, `nonce_bytes` what OsRng gave.
encrypt_wallets(wallets, pin, order, nonce_bytes) ==
    LET serialized == SerializeFrom(wallets, order, 1, <<>>) IN
    IF ~serialized.some THEN None
    ELSE Some([nonce |-> nonce_bytes,
               ct |-> aead_encrypt(compute_pin_hash(pin), nonce_bytes, serialized.val)])

DataLen(data) == Len(data.nonce) + data.ct.n

(***************************************************************************)
(* String::from_utf8_lossy: well-formed sequences are kept, every maximal  *)
(* ill-formed subpart becomes U+FFFD (EF BF BD).                           *)
(***************************************************************************)
Replacement == <<239, 191, 189>>

InRange(b, lo, hi) == lo <= b /\ b <= hi

\* The ranges the bytes after lead byte b must lie in; <<>> for ASCII, and a
\* single impossible range for a byte that cannot start a sequence.
Followers(b) ==
    IF b < 128 THEN <<>>
    ELSE IF InRange(b, 194, 223) THEN << <<128, 191>> >>
    ELSE IF b = 224 THEN << <<160, 191>>, <<128, 191>> >>
    ELSE IF InRange(b, 225, 236) \/ InRange(b, 238, 239) THEN << <<128, 191>>, <<128, 191>> >>
    ELSE IF b = 237 THEN << <<128, 159>>, <<128, 191>> >>
    ELSE IF b = 240 THEN << <<144, 191>>, <<128, 191>>, <<128, 191>> >>
    ELSE IF InRange(b, 241, 243) THEN << <<128, 191>>, <<128, 191>>, <<128, 191>> >>
    ELSE IF b = 244 THEN << <<128, 143>>, <<128, 191>>, <<128, 191>> >>
    ELSE << <<1, 0>> >>

RECURSIVE Matched(_, _, _, _)
\* How many of the follower ranges rs[j..] the bytes after position p satisfy.
Matched(bytes, p, rs, j) ==
    IF j > Len(rs) \/ p + j > Len(bytes) THEN j - 1
    ELSE IF InRange(bytes[p + j], rs[j][1], rs[j][2]) THEN Matched(bytes, p, rs, j + 1)
    ELSE j - 1

IsContinuation(b) == InRange(b, 128, 191)

\* Whether a chunk of the decoding starts at position p: at every byte that
\* is no continuation byte, and at every continuation byte that the sequence
\* started up to three bytes before it does not take in.
ChunkStart(bytes, p) ==
    \/ ~IsContinuation(bytes[p])
    \/ ~\E d \in 1..3 :
           /\ p - d >= 1
           /\ ~IsContinuation(bytes[p - d])
           /\ \A e \in 1..(d - 1) : IsContinuation(bytes[p - e])
           /\ d <= Matched(bytes, p - d, Followers(bytes[p - d]), 1)

\* What the chunk starting at p decodes to.
Utf8Chunk(bytes, p) ==
    LET rs == Followers(bytes[p])
        m == Matched(bytes, p, rs, 1)
    IN IF m = Len(rs) THEN SubSeq(bytes, p, p + m) ELSE Replacement

RECURSIVE Utf8LossyBetween(_, _, _)
\* The decoding of the chunks that start in lo..hi, in order.
Utf8LossyBetween(bytes, lo, hi) ==
    IF lo > hi THEN <<>>
    ELSE IF lo = hi THEN (IF ChunkStart(bytes, lo) THEN Utf8Chunk(bytes, lo) ELSE <<>>)
    ELSE LET mid == (lo + hi) \div 2 IN
         Utf8LossyBetween(bytes, lo, mid) \o Utf8LossyBetween(bytes, mid + 1, hi)

from_utf8_lossy(bytes) == Utf8LossyBetween(bytes, 1, Len(bytes))

\* HashMap::insert
MapInsert(m, k, v) == [x \in DOMAIN m \cup {k} |-> IF x = k THEN v ELSE m[x]]

EmptyMap == [x \in {} |-> 0]

\* &decrypted[i..i+32] for the 0-based i of the source.
KeySlice_shifted(decrypted, i) == SubSeq(decrypted, i, i + KeyLen - 1)
KeySlice(decrypted, i) == SubSeq(decrypted, i + 1, i + KeyLen)

\* if i + name_len + 32 > decrypted.len(), i being past the length byte
RecordTruncated_strict(decrypted, i1, name_len) == i1 + name_len + KeyLen >= Len(decrypted)
RecordTruncated(decrypted, i1, name_len) == i1 + name_len + KeyLen > Len(decrypted)

RECURSIVE WalkRecords(_, _, _)
\* The record walk; i is the 0-based index of the source.
WalkRecords(decrypted, i, wallets) ==
    IF ~(i < Len(decrypted)) THEN Some(wallets)
    ELSE LET name_len == decrypted[i + 1]
             i1 == i + 1
         IN IF RecordTruncated(decrypted, i1, name_len) THEN None
            ELSE LET name == from_utf8_lossy(SubSeq(decrypted, i1 + 1, i1 + name_len))
                     i2 == i1 + name_len
                 IN WalkRecords(decrypted, i2 + KeyLen,
                                MapInsert(wallets, name, KeySlice(decrypted, i2)))

\* if data.len() < 12 { return None; }
TooShort_never(data) == FALSE
TooShort(data) == DataLen(data) < NonceLen

decrypt_wallets(data, pin) ==
    IF TooShort(data) THEN None
    ELSE LET decrypted == aead_decrypt(compute_pin_hash(pin), data.nonce, data.ct) IN
         IF ~decrypted.some THEN None
         ELSE WalkRecords(decrypted.val, 0, EmptyMap)


(***************************************************************************)
(* Command lines.  A token is a string (a sequence of bytes); a command is *)
(* its first token, given by name, and the remaining tokens.               *)
(***************************************************************************)
Range(s) == {s[i] : i \in DOMAIN s}

\* The ASCII codes the parsers look at.
Ascii == [minus |-> 45, plus |-> 43, dot |-> 46, zero |-> 48, nine |-> 57,
          a |-> 97, z |-> 122]

IsDigit(c) == InRange(c, Ascii.zero, Ascii.nine)

\* The tokens send is exercised on: "a1" (an address), "x!" (neither an
\* address nor a number), "1.5", "0.0" and "-1".
TokAddr == <<97, 49>>
TokJunk == <<120, 33>>
TokOneHalf == <<49, 46, 53>>
TokZero == <<48, 46, 48>>
TokMinusOne == <<45, 49>>

SendTokens == {TokAddr, TokJunk, TokOneHalf, TokZero, TokMinusOne}

\* The argument lists send is given: none, an odd number, one and two pairs,
\* with each kind of token in each place.
SendArgLists ==
    {<<>>, <<TokAddr>>, <<TokAddr, TokOneHalf, TokAddr>>}
    \cup {<<r, a>> : r \in {TokAddr, TokJunk}, a \in SendTokens \ {TokAddr}}
    \cup {<<TokAddr, TokOneHalf, r, a>> : r \in {TokAddr, TokJunk},
                                          a \in {TokOneHalf, TokZero, TokJunk}}
    \cup {<<TokJunk, TokOneHalf, TokAddr, TokOneHalf>>,
          <<TokAddr, TokJunk, TokAddr, TokOneHalf>>}

(***************************************************************************)
(* str::parse::<f64> on the decimal forms [+-]digits[.digits] and          *)
(* [+-].digits; the value is the exact fraction sign * num / den.          *)
(***************************************************************************)
RECURSIVE DigitsValue(_, _, _, _)
\* The digits s[p..q] read as a decimal number, after the value acc.
DigitsValue(s, p, q, acc) ==
    IF p > q THEN acc ELSE DigitsValue(s, p + 1, q, acc * 10 + (s[p] - Ascii.zero))

RECURSIVE PowerOfTen(_)
PowerOfTen(n) == IF n = 0 THEN 1 ELSE 10 * PowerOfTen(n - 1)

AllDigits(s, p, q) == \A i \in p..q : IsDigit(s[i])

ParseF64(tok) ==
    LET signed == Len(tok) > 0 /\ tok[1] \in {Ascii.minus, Ascii.plus}
        first == IF signed THEN 2 ELSE 1
        dots == {i \in first..Len(tok) : tok[i] = Ascii.dot}
        dot == IF dots = {} THEN Len(tok) + 1 ELSE CHOOSE i \in dots : \A j \in dots : i <= j
        nInt == dot - first
        nFrac == IF dots = {} THEN 0 ELSE Len(tok) - dot
    IN IF /\ nInt + nFrac > 0
          /\ AllDigits(tok, first, dot - 1)
          /\ AllDigits(tok, dot + 1, Len(tok))
       THEN Some([neg |-> signed /\ tok[1] = Ascii.minus,
                  num |-> DigitsValue(tok, dot + 1, Len(tok),
                                      DigitsValue(tok, first, dot - 1, 0)),
                  den |-> PowerOfTen(nFrac)])
       ELSE None

\* Smallest units per coin in the model (the ledger's own factor is larger).
NanoPerSnap == 10

\* to_nano: the amount scaled to the smallest unit and cast to u64; the cast
\* truncates and sends every negative value to 0.
to_nano(amount) ==
    IF amount.neg THEN 0 ELSE (amount.num * NanoPerSnap) \div amount.den

\* Public::new_from_base36: the base-36 value of a non-empty string of
\* digits and lower-case letters.
Base36Digit(c) == IF IsDigit(c) THEN c - Ascii.zero ELSE c - Ascii.a + 10

IsBase36(c) == IsDigit(c) \/ InRange(c, Ascii.a, Ascii.z)

RECURSIVE Base36Value(_, _, _)
Base36Value(s, p, acc) ==
    IF p > Len(s) THEN acc ELSE Base36Value(s, p + 1, acc * 36 + Base36Digit(s[p]))

new_from_base36(tok) ==
    IF Len(tok) > 0 /\ \A i \in DOMAIN tok : IsBase36(tok[i])
    THEN Some(Base36Value(tok, 1, 0))
    ELSE None

(***************************************************************************)
(* handle_command, send: the loop that turns the arguments into payments.  *)
(* It yields the payments, or None when it returned from the handler, and  *)
(* the messages it printed.                                                *)
(***************************************************************************)
RECURSIVE ParsePairs(_, _, _, _)
ParsePairs(args, k, payments, printed) ==
    IF k > Len(args) THEN [returned |-> FALSE, payments |-> payments, printed |-> printed]
    ELSE IF k + 1 > Len(args)
         THEN [returned |-> FALSE, payments |-> payments, printed |-> printed]
    ELSE LET receiver == new_from_base36(args[k])
             amount == ParseF64(args[k + 1])
         IN IF ~amount.some
            THEN [returned |-> TRUE, payments |-> payments,
                  printed |-> Append(printed, "Invalid amount")]
            ELSE IF receiver.some
                 THEN ParsePairs(args, k + 2,
                          Append(payments, <<receiver.val, to_nano(amount.val)>>), printed)
                 ELSE ParsePairs(args, k + 2, payments,
                          Append(printed, "Invalid public address"))

\* args.len() % 2 != 0 || args.len() < 2
BadArity(args) == Len(args) % 2 # 0 \/ Len(args) < 2

(***************************************************************************)
(* The ledger's spendable outputs and the transaction builder, which are   *)
(* collaborators of the program.                                           *)
(***************************************************************************)
NumOutputs == 2
MaxSends == 2

\* Output k of the ledger is (transaction hash, output index); a
\* TransactionInput names the output it spends.
TransactionInput(k) == [transaction_id |-> (k + 1) \div 2, output_index |-> (k + 1) % 2]

Outputs == 1..NumOutputs

RECURSIVE InputsOf(_, _)
\* The inputs spending the outputs S, in the ledger's listing order from k on.
InputsOf(S, k) ==
    IF k > NumOutputs THEN <<>>
    ELSE (IF k \in S THEN <<TransactionInput(k)>> ELSE <<>>) \o InputsOf(S, k + 1)

\* build_transaction(client, signer, payments, ignore_inputs): what it may
\* return when the ledger lists `candidates` as the signer's outputs.  It
\* spends at least one candidate, none of them named in ignore_inputs, or
\* fails (insufficient funds, ledger error).
build_transaction(candidates, payments, ignore_inputs) ==
    LET avail == {k \in candidates : TransactionInput(k) \notin Range(ignore_inputs)}
    IN {None} \cup {Some([inputs |-> InputsOf(S, 1), payments |-> payments])
                       : S \in SUBSET avail \ {{}}}

(***************************************************************************)
(* State.                                                                  *)
(***************************************************************************)
VARIABLES
    pc,                   \* where the program is: the prompt, a step of send, exited
    wallets,              \* main: the in-memory vault, name -> key
    current_wallet,       \* main: the selected wallet's name
    pin,                  \* main: the PIN the session was unlocked with
    file,                 \* ~/.snap-coin-wallet: Some(blob), or None when absent
    last_login,           \* ~/.snap-coin-last-login
    used_session_inputs,  \* handle_command's used_session_inputs
    command,              \* the command line being handled, or handled last
    pending,              \* send's locals, and what the ledger listed to the builder
    calls,                \* the collaborator calls this command made, in order
    printed,              \* the messages this command printed
    used_at_start,        \* used_session_inputs when this command began
    submitted,            \* every transaction handed to submit_transaction
    accepted,             \* the identifiers the verify step found in the pool
    tx_count,             \* transactions given an identifier so far
    blob,                 \* codec runs: encrypt_wallets' result
    try_pin,              \* codec runs: the PIN given to decrypt_wallets
    loaded,               \* codec runs: decrypt_wallets' result
    seen                  \* what a reader of the vault file got, while it is written

vaultVars == <<wallets, current_wallet, pin, file, last_login>>
histVars == <<submitted, accepted, tx_count>>
codecVars == <<blob, try_pin, loaded, seen>>
vars == <<pc, wallets, current_wallet, pin, file, last_login, used_session_inputs,
          command, pending, calls, printed, used_at_start, submitted, accepted,
          tx_count, blob, try_pin, loaded, seen>>

NoPending ==
    [payments |-> <<>>, candidates |-> {}, transaction |-> None, tx_id |-> None,
     confirm |-> None, status |-> None, mempool |-> None, new |-> None, again |-> None]

NoCommand == [cmd |-> "", args |-> <<>>]

\* What read_pin can return: the six digits typed, or None for an I/O error.
PinInputs == {Some(p) : p \in {SessionPin, OtherPin}} \cup {None}

SessionNames == {NameA, NameB}
SessionKey(name) == IF name = NameA THEN Key1 ELSE Key2
SessionVault == [n \in SessionNames |-> SessionKey(n)]

(***************************************************************************)
(* The session after login to a vault of two wallets: the vault on disk is *)
(* the vault in memory, the current wallet is one of its entries and       *)
(* nothing is spent yet.                                                   *)
(***************************************************************************)
Init ==
    /\ pc = "prompt"
    /\ wallets = SessionVault
    /\ current_wallet \in DOMAIN wallets
    /\ pin = SessionPin
    /\ file = encrypt_wallets(wallets, pin, <<NameA, NameB>>, Rep(0, NonceLen))
    /\ last_login = current_wallet
    /\ used_session_inputs = <<>>
    /\ command = NoCommand
    /\ pending = NoPending
    /\ calls = <<>>
    /\ printed = <<>>
    /\ used_at_start = <<>>
    /\ submitted = <<>>
    /\ accepted = {}
    /\ tx_count = 0
    /\ blob = None
    /\ try_pin = ""
    /\ loaded = None
    /\ seen = None

(***************************************************************************)
(* handle_command.  Every command starts at the prompt of main's loop; an  *)
(* Err the handler returns is propagated by main's `?` and ends the        *)
(* process.  command, pending, calls and printed describe the command in   *)
(* progress, and the one that just ended until the next line is read.      *)
(***************************************************************************)
Begin(cmd, args) ==
    /\ pc = "prompt"
    /\ command' = [cmd |-> cmd, args |-> args]
    /\ used_at_start' = used_session_inputs

\* The handler returns Ok(()): main is about to read the next line.
Return(msgs) == pc' = "returned" /\ printed' = msgs

\* The handler returns Err, or exits: the process ends.
Propagate(msgs) == pc' = "exited" /\ printed' = msgs

\* main's loop comes round to rl.readline; the handler's locals are gone.
NextLine ==
    /\ pc = "returned"
    /\ pc' = "prompt"
    /\ command' = NoCommand
    /\ pending' = NoPending
    /\ calls' = <<>>
    /\ printed' = <<>>
    /\ used_at_start' = <<>>
    /\ UNCHANGED <<vaultVars, used_session_inputs, histVars, codecVars>>

\* wallets.get(current_wallet) is None
NoCurrent == current_wallet \notin DOMAIN wallets

\* main: exit, quit, Ctrl+C, Ctrl+D
Quit ==
    /\ pc = "prompt"
    /\ pc' = "exited"
    /\ UNCHANGED <<vaultVars, used_session_inputs, command, pending, calls, printed,
                   used_at_start, histVars, codecVars>>

\* help, and the commands the handler does not know
Help(cmd) ==
    /\ Begin(cmd, <<>>)
    /\ pending' = NoPending
    /\ calls' = <<>>
    /\ IF NoCurrent THEN Return(<<"Current wallet not found">>)
       ELSE IF cmd = "help" THEN Return(<<"Available commands">>)
       ELSE Return(<<"Unknown command">>)
    /\ UNCHANGED <<vaultVars, used_session_inputs, histVars, codecVars>>

ClientCall ==
    [balance |-> "get_balance", available |-> "get_available_transaction_outputs",
     history |-> "get_transactions_of_address"]

\* balance, available, history: one ledger call, whose error is propagated
Query(cmd, ok) ==
    /\ Begin(cmd, <<>>)
    /\ pending' = NoPending
    /\ IF NoCurrent THEN calls' = <<>> /\ Return(<<"Current wallet not found">>)
       ELSE /\ calls' = <<ClientCall[cmd]>>
            /\ IF ok THEN Return(<<cmd>>) ELSE Propagate(<<"Error">>)
    /\ UNCHANGED <<vaultVars, used_session_inputs, histVars, codecVars>>

\* tx-info <txid>
TxInfo(args, ok) ==
    /\ Begin("tx-info", args)
    /\ pending' = NoPending
    /\ IF NoCurrent THEN calls' = <<>> /\ Return(<<"Current wallet not found">>)
       ELSE IF Len(args) # 1 THEN calls' = <<>> /\ Return(<<"Usage: tx-info <TXID>">>)
       ELSE IF ~new_from_base36(args[1]).some
            THEN calls' = <<>> /\ Return(<<"Invalid TX ID">>)
       ELSE /\ calls' = <<"get_transaction">>
            /\ IF ok THEN Return(<<"Transaction Details">>) ELSE Propagate(<<"Error">>)
    /\ UNCHANGED <<vaultVars, used_session_inputs, histVars, codecVars>>

(***************************************************************************)
(* send                                                                    *)
(***************************************************************************)
\* The ignore list handed to the builder: used_session_inputs.clone()
ExcludedArg_empty == <<>>
ExcludedArg == used_session_inputs

\* pin != read_pin(..)?, for the PIN that was read
PinMatches_unchecked(session_pin, entered) == TRUE
PinMatches(session_pin, entered) == session_pin = entered

\* get_mempool().iter().any(|tx| tx.transaction_id == Some(tx_id))
InMempool_any(mempool, tx_id) == TRUE
InMempool(mempool, tx_id) == tx_id \in mempool

\* used_session_inputs.extend_from_slice(&used_inputs)
Commit_nothing(used, used_inputs) == used
Commit_overwrite(used, used_inputs) == used_inputs
Commit(used, used_inputs) == used \o used_inputs

\* The argument checks and the payment loop, up to the call of the builder.
SendValidate(args) ==
    /\ Begin("send", args)
    /\ tx_count < MaxSends
    /\ LET parsed == ParsePairs(args, 1, <<>>, <<>>) IN
       IF NoCurrent
       THEN /\ pending' = NoPending /\ calls' = <<>>
            /\ Return(<<"Current wallet not found">>)
       ELSE IF BadArity(args)
       THEN /\ pending' = NoPending /\ calls' = <<>>
            /\ Return(<<"Usage: send">>)
       ELSE IF parsed.returned
       THEN /\ pending' = NoPending /\ calls' = <<>>
            /\ Return(parsed.printed)
       ELSE /\ pending' = [NoPending EXCEPT !.payments = parsed.payments]
            /\ calls' = <<"build_transaction">>
            /\ printed' = parsed.printed
            /\ pc' = "send_build"
    /\ UNCHANGED <<vaultVars, used_session_inputs, histVars, codecVars>>

\* if let Err(ref e) = transaction
BuildFailed_ignored(transaction) == FALSE
BuildFailed(transaction) == ~transaction.some

\* The builder returns; on success the difficulty is asked for.  The payments
\* were moved into the builder and the arguments are not read again.
SendBuild(candidates, transaction) ==
    /\ pc = "send_build"
    /\ transaction \in build_transaction(candidates, pending.payments, ExcludedArg)
    /\ pending' = [pending EXCEPT !.candidates = candidates, !.transaction = transaction,
                                   !.payments = <<>>]
    /\ command' = [command EXCEPT !.args = <<>>]
    /\ IF BuildFailed(transaction)
       THEN /\ calls' = calls
            /\ Return(Append(printed, "Failed to create transaction"))
       ELSE /\ calls' = Append(calls, "get_transaction_difficulty")
            /\ printed' = Append(printed, "Computing Proof of Work...")
            /\ pc' = "send_prove"
    /\ UNCHANGED <<vaultVars, used_session_inputs, used_at_start, histVars, codecVars>>

\* The difficulty arrives and the proof of work is computed, which gives the
\* transaction its identifier; then the PIN is asked for.
SendProve(outcome) ==
    /\ pc = "send_prove"
    /\ IF outcome = "difficulty_failed"
       THEN /\ calls' = calls /\ tx_count' = tx_count
            /\ pending' = [pending EXCEPT !.candidates = {}]
            /\ Propagate(Append(printed, "Error"))
       ELSE IF outcome = "pow_failed"
       THEN /\ calls' = Append(calls, "compute_pow")
            /\ tx_count' = tx_count
            /\ pending' = [pending EXCEPT !.candidates = {}]
            /\ Propagate(Append(printed, "Error"))
       ELSE /\ calls' = Append(Append(calls, "compute_pow"), "read_pin")
            /\ tx_count' = tx_count + 1
            /\ pending' = [pending EXCEPT !.tx_id = Some(tx_count + 1), !.candidates = {}]
            /\ printed' = Append(printed, "Created transaction")
            /\ pc' = "send_confirm"
    /\ UNCHANGED <<vaultVars, used_session_inputs, command, used_at_start, submitted,
                   accepted, codecVars>>

\* The PIN is read; when it is the session's, the transaction is submitted.
SendConfirm(entered) ==
    /\ pc = "send_confirm"
    /\ pending' = [pending EXCEPT !.confirm = Some(entered)]
    /\ IF ~entered.some
       THEN /\ calls' = calls /\ submitted' = submitted
            /\ Propagate(Append(printed, "Error"))
       ELSE IF ~PinMatches(pin, entered.val)
       THEN /\ calls' = calls /\ submitted' = submitted
            /\ Return(Append(printed, "PIN incorrect!"))
       ELSE /\ calls' = Append(calls, "submit_transaction")
            /\ submitted' = Append(submitted,
                   [transaction_id |-> pending.tx_id.val,
                    inputs |-> pending.transaction.val.inputs])
            /\ printed' = Append(printed, "Submitting transaction...")
            /\ pc' = "send_submit"
    /\ UNCHANGED <<vaultVars, used_session_inputs, command, used_at_start, accepted,
                   tx_count, codecVars>>

\* client.submit_transaction(transaction).await?
SubmitFailed_ignored(ok) == FALSE
SubmitFailed(ok) == ~ok

\* submit_transaction returns; without an error the pending pool is asked for.
\* pending.status is whether the call returned without an error.
SendSubmit(ok) ==
    /\ pc = "send_submit"
    /\ pending' = [pending EXCEPT !.status = Some(ok)]
    /\ IF SubmitFailed(ok)
       THEN calls' = calls /\ Propagate(Append(printed, "Error"))
       ELSE /\ calls' = Append(calls, "get_mempool")
            /\ printed' = Append(printed, "Validating submission...")
            /\ pc' = "send_verify"
    /\ UNCHANGED <<vaultVars, used_session_inputs, command, used_at_start,
                   histVars, codecVars>>

\* The identifiers the pending pool can hold: those of submitted transactions.
SubmittedIds == {submitted[i].transaction_id : i \in DOMAIN submitted}

\* get_mempool returns: an error, or the pool.
SendVerify(mempool) ==
    /\ pc = "send_verify"
    /\ pending' = [pending EXCEPT !.mempool = mempool]
    /\ IF ~mempool.some
       THEN /\ used_session_inputs' = used_session_inputs /\ accepted' = accepted
            /\ Propagate(Append(printed, "Error"))
       ELSE IF InMempool(mempool.val, pending.tx_id.val)
       THEN /\ used_session_inputs' =
                   Commit(used_session_inputs, pending.transaction.val.inputs)
            /\ accepted' = accepted \cup {pending.tx_id.val}
            /\ Return(Append(printed, "Transaction successfully submitted."))
       ELSE /\ used_session_inputs' = used_session_inputs /\ accepted' = accepted
            /\ Return(Append(printed, "Transaction failed to submit."))
    /\ UNCHANGED <<vaultVars, command, calls, used_at_start, submitted, tx_count,
                   codecVars>>

(***************************************************************************)
(* Persistence.                                                            *)
(***************************************************************************)
\* A file that was created (truncated) and never written.
EmptyFile ==
    [nonce |-> <<>>, ct |-> [key |-> None, nonce |-> <<>>, pt |-> <<>>, n |-> 0]]

FsOutcomes == {"ok", "create_failed", "write_failed"}

\* std::fs::write(path, bytes): the file after it, for each way it can end.
fs_write(old, bytes, outcome) ==
    IF outcome = "ok" THEN Some(bytes)
    ELSE IF outcome = "create_failed" THEN old
    ELSE Some(EmptyFile)

\* persist: the vault file after it.  A vault that does not encrypt, and a
\* write that fails, are reported and otherwise ignored.
persist(ws, p, order, nonce, outcome) ==
    LET bytes == encrypt_wallets(ws, p, order, nonce) IN
    IF bytes.some THEN fs_write(file, bytes.val, outcome) ELSE file

\* HashMap::remove
MapRemove(m, k) == [x \in DOMAIN m \ {k} |-> m[x]]

(***************************************************************************)
(* wallet <delete|private|public|switch> [name]                            *)
(***************************************************************************)
TokDelete == <<100, 101, 108, 101, 116, 101>>
TokPrivate == <<112, 114, 105, 118, 97, 116, 101>>
TokPublic == <<112, 117, 98, 108, 105, 99>>
TokSwitch == <<115, 119, 105, 116, 99, 104>>
TokOther == <<114, 109>>

WalletArgLists ==
    {<<>>} \cup {<<sub>> : sub \in {TokDelete, TokPrivate, TokPublic, TokSwitch, TokOther}}
           \cup {<<sub, name>> : sub \in {TokDelete, TokPrivate, TokPublic, TokSwitch, TokOther},
                                 name \in SessionNames}

\* args[1] when given, else the current wallet
NameArg(args) == IF Len(args) > 1 THEN args[2] ELSE current_wallet

\* wallet, with no subcommand or one the handler does not know
WalletUsage(args) ==
    /\ Begin("wallet", args)
    /\ IF Len(args) = 0 THEN TRUE
       ELSE args[1] \notin {TokDelete, TokPrivate, TokPublic, TokSwitch}
    /\ pending' = NoPending
    /\ calls' = <<>>
    /\ IF NoCurrent THEN Return(<<"Current wallet not found">>)
       ELSE IF Len(args) = 0 THEN Return(<<"Usage: wallet">>)
       ELSE Return(<<"Unknown wallet subcommand">>)
    /\ UNCHANGED <<vaultVars, used_session_inputs, histVars, codecVars>>

\* wallet delete: confirm != pin, for the PIN that was read
DeletePinOk_unchecked(session_pin, confirm) == TRUE
DeletePinOk(session_pin, confirm) == confirm = session_pin

\* wallet delete [name]; pending.confirm is what read_pin returned.
WalletDelete(args) ==
    /\ Begin("wallet", args)
    /\ Len(args) > 0
    /\ args[1] = TokDelete
    /\ LET name == NameArg(args)
           remaining == MapRemove(wallets, name)
       IN
       IF NoCurrent
       THEN /\ calls' = <<>> /\ Return(<<"Current wallet not found">>)
            /\ pending' = NoPending
            /\ UNCHANGED <<wallets, current_wallet, file>>
       ELSE IF name \notin DOMAIN wallets
       THEN /\ calls' = <<>> /\ Return(<<"Wallet not found">>)
            /\ pending' = NoPending
            /\ UNCHANGED <<wallets, current_wallet, file>>
       ELSE \E entered \in PinInputs :
            /\ pending' = [NoPending EXCEPT !.confirm = Some(entered)]
            /\ IF ~entered.some
               THEN /\ calls' = <<"read_pin">> /\ Propagate(<<"Error">>)
                    /\ UNCHANGED <<wallets, current_wallet, file>>
               ELSE IF ~DeletePinOk(pin, entered.val)
               THEN /\ calls' = <<"read_pin">>
                    /\ Return(<<"Incorrect PIN. Wallet not deleted.">>)
                    /\ UNCHANGED <<wallets, current_wallet, file>>
               ELSE \E order \in Orders(DOMAIN remaining), nonce \in Nonces,
                       outcome \in FsOutcomes :
                    /\ calls' = <<"read_pin", "persist">>
                    /\ wallets' = remaining
                    /\ file' = persist(remaining, pin, order, nonce, outcome)
                    /\ IF current_wallet # name
                       THEN current_wallet' = current_wallet /\ Return(<<"Wallet deleted.">>)
                       ELSE IF DOMAIN remaining # {}
                       THEN \E first \in DOMAIN remaining :
                               /\ current_wallet' = first
                               /\ Return(<<"Wallet deleted.", "Switched to wallet">>)
                       ELSE /\ current_wallet' = current_wallet
                            /\ Propagate(<<"Wallet deleted.", "No wallets remaining.">>)
    /\ UNCHANGED <<pin, last_login, used_session_inputs, histVars, codecVars>>

\* wallet private [name], wallet public [name]
WalletShow(args) ==
    /\ Begin("wallet", args)
    /\ Len(args) > 0
    /\ args[1] \in {TokPrivate, TokPublic}
    /\ pending' = NoPending
    /\ LET name == NameArg(args) IN
       IF NoCurrent THEN calls' = <<>> /\ Return(<<"Current wallet not found">>)
       ELSE IF name \notin DOMAIN wallets THEN calls' = <<>> /\ Return(<<"Wallet not found">>)
       ELSE IF args[1] = TokPublic THEN calls' = <<>> /\ Return(<<"Public key">>)
       ELSE \E entered \in PinInputs :
            /\ calls' = <<"read_pin">>
            /\ IF ~entered.some THEN Propagate(<<"Error">>)
               ELSE IF entered.val # pin
               THEN Return(<<"Incorrect PIN. Cannot show private key.">>)
               ELSE Return(<<"Private key">>)
    /\ UNCHANGED <<vaultVars, used_session_inputs, histVars, codecVars>>

\* wallet switch [name]; save_last_login creates the file, then writes it.
WalletSwitch(args) ==
    /\ Begin("wallet", args)
    /\ Len(args) > 0
    /\ args[1] = TokSwitch
    /\ pending' = NoPending
    /\ LET name == NameArg(args) IN
       IF NoCurrent
       THEN /\ calls' = <<>> /\ Return(<<"Current wallet not found">>)
            /\ UNCHANGED <<current_wallet, last_login>>
       ELSE IF name \notin DOMAIN wallets
       THEN /\ calls' = <<>> /\ Return(<<"Wallet not found">>)
            /\ UNCHANGED <<current_wallet, last_login>>
       ELSE \E saved \in BOOLEAN :
            /\ calls' = <<"save_last_login">>
            /\ IF ~saved
               THEN Propagate(<<"Error">>) /\ UNCHANGED <<current_wallet, last_login>>
               ELSE /\ last_login' = name
                    /\ current_wallet' = name
                    /\ Return(<<"Switched to wallet">>)
    /\ UNCHANGED <<wallets, pin, file, used_session_inputs, histVars, codecVars>>

(***************************************************************************)
(* change-pin; on success the process exits.  pending.confirm, new and       *)
(* again are what the three PIN prompts returned.                          *)
(***************************************************************************)
ChangePin ==
    /\ Begin("change-pin", <<>>)
    /\ IF NoCurrent
       THEN /\ calls' = <<>> /\ Return(<<"Current wallet not found">>) /\ file' = file
            /\ pending' = NoPending
       ELSE \E entered \in PinInputs :
            IF ~entered.some
            THEN /\ calls' = <<"read_pin">> /\ Propagate(<<"Error">>) /\ file' = file
                 /\ pending' = [NoPending EXCEPT !.confirm = Some(entered)]
            ELSE IF entered.val # pin
            THEN /\ calls' = <<"read_pin">> /\ file' = file
                 /\ pending' = [NoPending EXCEPT !.confirm = Some(entered)]
                 /\ Return(<<"Incorrect PIN. Cannot change pin.">>)
            ELSE \E new \in PinInputs :
                 IF ~new.some
                 THEN /\ calls' = <<"read_pin", "read_pin">> /\ file' = file
                      /\ pending' = [NoPending EXCEPT !.confirm = Some(entered),
                                                       !.new = Some(new)]
                      /\ Propagate(<<"Error">>)
                 ELSE \E again \in PinInputs :
                      /\ pending' = [NoPending EXCEPT !.confirm = Some(entered),
                                                       !.new = Some(new),
                                                       !.again = Some(again)]
                      /\ IF ~again.some
                         THEN /\ calls' = <<"read_pin", "read_pin", "read_pin">>
                              /\ file' = file
                              /\ Propagate(<<"Error">>)
                         ELSE IF new.val # again.val
                         THEN /\ calls' = <<"read_pin", "read_pin", "read_pin">>
                              /\ file' = file
                              /\ Return(<<"PINs do not match. Cannot change pin.">>)
                         ELSE \E order \in Orders(DOMAIN wallets), nonce \in Nonces,
                                 outcome \in FsOutcomes :
                              /\ calls' = <<"read_pin", "read_pin", "read_pin", "persist">>
                              /\ file' = persist(wallets, new.val, order, nonce, outcome)
                              /\ Propagate(<<"Changed PIN.">>)
    /\ UNCHANGED <<wallets, current_wallet, pin, last_login, used_session_inputs,
                   histVars, codecVars>>

Next ==
    \/ Quit
    \/ NextLine
    \/ \E cmd \in {"help", "unknown"} : Help(cmd)
    \/ \E cmd \in DOMAIN ClientCall, ok \in BOOLEAN : Query(cmd, ok)
    \/ \E args \in {<<>>, <<TokAddr>>, <<TokJunk>>}, ok \in BOOLEAN : TxInfo(args, ok)
    \/ \E args \in SendArgLists : SendValidate(args)
    \/ \E candidates \in SUBSET Outputs :
           \E transaction \in build_transaction(candidates, pending.payments, ExcludedArg) :
               SendBuild(candidates, transaction)
    \/ \E outcome \in {"difficulty_failed", "pow_failed", "ok"} : SendProve(outcome)
    \/ \E entered \in PinInputs : SendConfirm(entered)
    \/ \E ok \in BOOLEAN : SendSubmit(ok)
    \/ \E mempool \in {None} \cup {Some(m) : m \in SUBSET SubmittedIds} : SendVerify(mempool)
    \/ \E args \in WalletArgLists : WalletUsage(args)
    \/ \E args \in WalletArgLists : WalletDelete(args)
    \/ \E args \in WalletArgLists : WalletShow(args)
    \/ \E args \in WalletArgLists : WalletSwitch(args)
    \/ ChangePin

Spec == Init /\ [][Next]_vars

(***************************************************************************)
(* The codec on its own: a vault is encrypted under a PIN and the blob is  *)
(* decrypted under some PIN.                                               *)
(***************************************************************************)
CodecInit ==
    /\ pc = "codec"
    /\ wallets \in VaultsOver(CodecNames, MaxVaultSize)
    /\ pin \in Pins
    /\ blob = None
    /\ try_pin = ""
    /\ loaded = None
    /\ seen = None
    /\ current_wallet = NameEmpty
    /\ file = None
    /\ last_login = NameEmpty
    /\ used_session_inputs = <<>>
    /\ command = NoCommand
    /\ pending = NoPending
    /\ calls = <<>>
    /\ printed = <<>>
    /\ used_at_start = <<>>
    /\ submitted = <<>>
    /\ accepted = {}
    /\ tx_count = 0

CodecEncrypt(order, nonce) ==
    /\ pc = "codec"
    /\ blob' = encrypt_wallets(wallets, pin, order, nonce)
    /\ pc' = "encrypted"
    /\ UNCHANGED <<vaultVars, used_session_inputs, command, pending, calls, printed,
                   used_at_start, histVars, try_pin, loaded, seen>>

CodecDecrypt(p) ==
    /\ pc = "encrypted"
    /\ blob.some
    /\ try_pin' = p
    /\ loaded' = decrypt_wallets(blob.val, p)
    /\ pc' = "decrypted"
    /\ UNCHANGED <<vaultVars, used_session_inputs, command, pending, calls, printed,
                   used_at_start, histVars, blob, seen>>

\* The first k bytes of a blob: of its nonce, then of its ciphertext.
Truncated(data, k) ==
    IF k < Len(data.nonce)
    THEN [nonce |-> SubSeq(data.nonce, 1, k), ct |-> [data.ct EXCEPT !.n = 0]]
    ELSE [nonce |-> data.nonce, ct |-> [data.ct EXCEPT !.n = k - Len(data.nonce)]]

\* The lengths a blob is cut to: everything below the nonce's length, the
\* nonce alone, and all but the last byte.
CutLengths(data) == IF data.some THEN (0..NonceLen) \cup {DataLen(data.val) - 1} ELSE {}

\* The blob loses its tail before it is read back.
CodecTruncate(k) ==
    /\ pc = "encrypted"
    /\ blob.some
    /\ blob' = Some(Truncated(blob.val, k))
    /\ pc' = "truncated"
    /\ UNCHANGED <<vaultVars, used_session_inputs, command, pending, calls, printed,
                   used_at_start, histVars, try_pin, loaded, seen>>

\* decrypt_wallets on the cut blob; calls records whether it got as far as
\* cipher.decrypt.
CodecDecryptTruncated(p) ==
    /\ pc = "truncated"
    /\ try_pin' = p
    /\ loaded' = decrypt_wallets(blob.val, p)
    /\ calls' = IF TooShort(blob.val) THEN <<>> ELSE <<"cipher.decrypt">>
    /\ pc' = "decrypted_truncated"
    /\ UNCHANGED <<vaultVars, used_session_inputs, command, pending, printed,
                   used_at_start, histVars, blob, seen>>

CodecNext ==
    \/ \E order \in Orders(DOMAIN wallets), nonce \in Nonces : CodecEncrypt(order, nonce)
    \/ \E p \in Pins : CodecDecrypt(p)
    \/ \E k \in CutLengths(blob) : CodecTruncate(k)
    \/ \E p \in Pins : CodecDecryptTruncated(p)

SpecCodec == CodecInit /\ [][CodecNext]_vars

(***************************************************************************)
(* The record walk on its own: decrypt_wallets is given a blob whose       *)
(* plaintext is any buffer, sealed under the PIN it is read with.          *)
(***************************************************************************)
MaxRecords == 2

NameInvalid == <<255>>

WalkNames == {NameEmpty, NameA, NameInvalid}

\* [length byte N][N name bytes][32 key bytes]
Record(name, key) == <<Len(name)>> \o name \o key

WalkRecordLists ==
    UNION {[1..n -> {[name |-> name, key |-> key] : name \in WalkNames, key \in Keys}]
               : n \in 0..MaxRecords}

RECURSIVE Concat(_, _)
\* The records rs[k..] one after the other.
Concat(rs, k) ==
    IF k > Len(rs) THEN <<>> ELSE Record(rs[k].name, rs[k].key) \o Concat(rs, k + 1)

\* Every buffer that is the beginning of a sequence of records.
WalkBuffers ==
    UNION {{SubSeq(Concat(rs, 1), 1, n) : n \in 0..Len(Concat(rs, 1))} : rs \in WalkRecordLists}

Sealed(plaintext, p) ==
    [nonce |-> Rep(0, NonceLen),
     ct |-> aead_encrypt(compute_pin_hash(p), Rep(0, NonceLen), plaintext)]

WalkInit ==
    /\ pc = "sealed"
    /\ pin = SessionPin
    /\ blob \in {Some(Sealed(plaintext, SessionPin)) : plaintext \in WalkBuffers}
    /\ wallets = EmptyMap
    /\ try_pin = ""
    /\ loaded = None
    /\ seen = None
    /\ current_wallet = NameEmpty
    /\ file = None
    /\ last_login = NameEmpty
    /\ used_session_inputs = <<>>
    /\ command = NoCommand
    /\ pending = NoPending
    /\ calls = <<>>
    /\ printed = <<>>
    /\ used_at_start = <<>>
    /\ submitted = <<>>
    /\ accepted = {}
    /\ tx_count = 0

WalkDecrypt ==
    /\ pc = "sealed"
    /\ try_pin' = pin
    /\ loaded' = decrypt_wallets(blob.val, pin)
    /\ pc' = "walked"
    /\ UNCHANGED <<vaultVars, used_session_inputs, command, pending, calls, printed,
                   used_at_start, histVars, blob, seen>>

WalkNext == WalkDecrypt

SpecWalk == WalkInit /\ [][WalkNext]_vars

(***************************************************************************)
(* Saving the vault, step by step, while another process reads the file.   *)
(* persist encrypts and then calls std::fs::write, which creates           *)
(* (truncates) the file and writes the bytes; save_wallets creates the     *)
(* file, then encrypts, then writes.  A write_all may reach the file in     *)
(* pieces.                                                                 *)
(***************************************************************************)
PersistNames == {NameA, NameB, NameOverLimit}

\* The vault the file holds before the save, and its blob under PIN p.
PreviousVault == [n \in {NameA} |-> Key2]
PreviousBlob(p) == encrypt_wallets(PreviousVault, p, <<NameA>>, Rep(7, NonceLen))

PersistInit ==
    /\ pc \in {"persist", "save_wallets"}
    /\ wallets \in VaultsOver(PersistNames, MaxVaultSize)
    /\ pin \in Pins
    /\ file \in {None, PreviousBlob(pin)}
    /\ blob = None
    /\ try_pin = ""
    /\ loaded = None
    /\ seen = None
    /\ current_wallet = NameEmpty
    /\ last_login = NameEmpty
    /\ used_session_inputs = <<>>
    /\ command = NoCommand
    /\ pending = NoPending
    /\ calls = <<>>
    /\ printed = <<>>
    /\ used_at_start = <<>>
    /\ submitted = <<>>
    /\ accepted = {}
    /\ tx_count = 0

persistFrame ==
    <<wallets, current_wallet, pin, last_login, used_session_inputs, command, pending,
      calls, used_at_start, histVars, try_pin, loaded>>

\* persist: encrypt_wallets, then std::fs::write when it gave bytes.
PersistEncrypt(order, nonce) ==
    /\ pc = "persist"
    /\ blob' = encrypt_wallets(wallets, pin, order, nonce)
    /\ IF blob'.some THEN pc' = "fs_create" /\ printed' = printed
       ELSE pc' = "saved" /\ printed' = <<"Failed to encrypt wallets">>
    /\ UNCHANGED <<persistFrame, file, seen>>

\* std::fs::write and File::create open the file with create and truncate:
\* whatever it held is gone.  save_wallets encrypts after that.
FsCreate(ok) ==
    /\ pc \in {"fs_create", "save_wallets"}
    /\ IF ~ok
       THEN pc' = "saved" /\ file' = file /\ printed' = <<"Failed to save wallets">>
       ELSE /\ file' = Some(EmptyFile)
            /\ printed' = printed
            /\ pc' = IF pc = "fs_create" THEN "fs_write" ELSE "save_encrypt"
    /\ UNCHANGED <<persistFrame, blob, seen>>

\* save_wallets: encrypt_wallets(wallets, pin).ok_or_else(..)?, the file
\* being open and empty.
SaveEncrypt(order, nonce) ==
    /\ pc = "save_encrypt"
    /\ blob' = encrypt_wallets(wallets, pin, order, nonce)
    /\ IF blob'.some THEN pc' = "fs_write" /\ printed' = printed
       ELSE pc' = "saved" /\ printed' = <<"Failed to encrypt wallets">>
    /\ UNCHANGED <<persistFrame, file, seen>>

\* The lengths the file can have between two writes of a write_all.
WritePoints(data) == {NonceLen, DataLen(data) - 1, DataLen(data)}

\* write_all: the file grows to k bytes of the blob; or the write fails.
FsWrite(k, ok) ==
    /\ pc = "fs_write"
    /\ k > DataLen(file.val)
    /\ IF ~ok
       THEN pc' = "saved" /\ file' = file /\ printed' = <<"Failed to save wallets">>
       ELSE /\ file' = Some(Truncated(blob.val, k))
            /\ printed' = printed
            /\ pc' = IF k = DataLen(blob.val) THEN "saved" ELSE "fs_write"
    /\ UNCHANGED <<persistFrame, blob, seen>>

\* Another process reads the whole file, as load_wallets does.
ReaderRead ==
    /\ seen = None
    /\ seen' = Some(file)
    /\ UNCHANGED <<persistFrame, pc, file, blob, printed>>

PersistNext ==
    \/ \E order \in Orders(DOMAIN wallets), nonce \in Nonces : PersistEncrypt(order, nonce)
    \/ \E ok \in BOOLEAN : FsCreate(ok)
    \/ \E order \in Orders(DOMAIN wallets), nonce \in Nonces : SaveEncrypt(order, nonce)
    \/ \E k \in (IF blob.some THEN WritePoints(blob.val) ELSE {}), ok \in BOOLEAN :
           FsWrite(k, ok)
    \/ ReaderRead

SpecPersist == PersistInit /\ [][PersistNext]_vars

(***************************************************************************)
(* main, from the PIN prompt to the first prompt of the command loop.      *)
(***************************************************************************)
\* The vaults a vault file found at startup can hold; it was written under
\* SessionPin.
StartVaults ==
    {EmptyMap, [n \in {NameA} |-> Key1], SessionVault}

StartOrder(v) ==
    IF DOMAIN v = {} THEN <<>> ELSE IF DOMAIN v = {NameA} THEN <<NameA>> ELSE <<NameA, NameB>>

StartFiles ==
    {None, Some(EmptyFile)}
        \cup {encrypt_wallets(v, SessionPin, StartOrder(v), Rep(0, NonceLen)) : v \in StartVaults}

StartupInit ==
    /\ pc = "read_pin"
    /\ file \in StartFiles
    /\ last_login \in {NameEmpty, NameA, NameB}
    /\ wallets = EmptyMap
    /\ current_wallet = NameEmpty
    /\ pin = ""
    /\ used_session_inputs = <<>>
    /\ command = NoCommand
    /\ pending = NoPending
    /\ calls = <<>>
    /\ printed = <<>>
    /\ used_at_start = <<>>
    /\ submitted = <<>>
    /\ accepted = {}
    /\ tx_count = 0
    /\ blob = None
    /\ try_pin = ""
    /\ loaded = None
    /\ seen = None

startupFrame ==
    <<used_session_inputs, command, pending, calls, used_at_start, histVars, codecVars>>

\* main returns an Err: the process ends.
Abort(msg) == pc' = "exited" /\ printed' = <<msg>>

\* let pin = read_pin("Enter 6-digit wallet PIN: ")?
StartReadPin(entered) ==
    /\ pc = "read_pin"
    /\ IF ~entered.some THEN Abort("Error") /\ pin' = pin
       ELSE pin' = entered.val /\ pc' = "load_wallets" /\ printed' = printed
    /\ UNCHANGED <<wallets, current_wallet, file, last_login, startupFrame>>

\* load_wallets: an absent file is the empty vault, a file that does not
\* decrypt is an Err.
load_wallets_or_empty(f, p) ==
    IF ~f.some THEN Some(EmptyMap)
    ELSE LET w == decrypt_wallets(f.val, p) IN IF w.some THEN w ELSE Some(EmptyMap)
load_wallets(f, p) == IF ~f.some THEN Some(EmptyMap) ELSE decrypt_wallets(f.val, p)

\* let mut wallets = load_wallets(&pin)?, and the branch on wallets.is_empty()
StartLoad ==
    /\ pc = "load_wallets"
    /\ LET w == load_wallets(file, pin) IN
       IF ~w.some
       THEN Abort("Failed to decrypt wallets (wrong PIN?)") /\ wallets' = wallets
       ELSE /\ wallets' = w.val
            /\ printed' = printed
            /\ pc' = IF DOMAIN w.val = {} THEN "confirm_pin" ELSE "choose"
    /\ UNCHANGED <<current_wallet, pin, file, last_login, startupFrame>>

\* No wallets found: the PIN is asked for again before a wallet is created.
StartConfirmPin(entered) ==
    /\ pc = "confirm_pin"
    /\ IF ~entered.some THEN Abort("Error")
       ELSE IF entered.val # pin THEN Abort("PINs don't match")
       ELSE pc' = "create_wallet" /\ printed' = printed
    /\ UNCHANGED <<vaultVars, startupFrame>>

Choices == {"", "1", "2", "3"}

\* Choose option (1 or 2); the empty answer is 1.
StartChoose(choice) ==
    /\ pc = "choose"
    /\ IF choice \in {"", "1"} THEN pc' = "select_wallet" /\ printed' = printed
       ELSE IF choice = "2" THEN pc' = "create_wallet" /\ printed' = printed
       ELSE Abort("Invalid choice")
    /\ UNCHANGED <<vaultVars, startupFrame>>

\* select_wallet: the empty answer takes the remembered name, a name of the
\* vault is taken, any other answer is asked again.
StartSelect(name) ==
    /\ pc = "select_wallet"
    /\ IF name = NameEmpty /\ last_login # NameEmpty
       THEN current_wallet' = last_login /\ pc' = "login" /\ printed' = printed
       ELSE IF name \in DOMAIN wallets
       THEN current_wallet' = name /\ pc' = "login" /\ printed' = printed
       ELSE /\ current_wallet' = current_wallet
            /\ pc' = pc
            /\ printed' = <<"Wallet not found. Please try again.">>
    /\ UNCHANGED <<wallets, pin, file, last_login, startupFrame>>

\* save_wallets: File::create, then encrypt_wallets, then write_all; the
\* file after it and whether it returned Ok.
save_wallets(old, ws, p, order, nonce, outcome) ==
    IF outcome = "create_failed" THEN [file |-> old, ok |-> FALSE]
    ELSE LET encrypted == encrypt_wallets(ws, p, order, nonce) IN
         IF ~encrypted.some \/ outcome = "write_failed"
         THEN [file |-> Some(EmptyFile), ok |-> FALSE]
         ELSE [file |-> encrypted, ok |-> TRUE]

\* What read_input gives for the key: empty (a random key), a key in base 36,
\* or something that is no key.
KeyInputs == {Some(k) : k \in Keys} \cup {None}

\* create_wallet
StartCreate(name, key_input, order, nonce, outcome) ==
    /\ pc = "create_wallet"
    /\ IF name \in DOMAIN wallets
       THEN Abort("Wallet already exists") /\ UNCHANGED <<wallets, current_wallet, file>>
       ELSE IF ~key_input.some
       THEN Abort("Invalid base36 private key")
            /\ UNCHANGED <<wallets, current_wallet, file>>
       ELSE LET inserted == MapInsert(wallets, name, key_input.val)
                saved == save_wallets(file, inserted, pin, order, nonce, outcome)
            IN /\ order \in Orders(DOMAIN inserted)
               /\ wallets' = inserted
               /\ file' = saved.file
               /\ IF ~saved.ok
                  THEN Abort("Error") /\ current_wallet' = current_wallet
                  ELSE /\ current_wallet' = name
                       /\ printed' = <<"Wallet created successfully.">>
                       /\ pc' = "login"
    /\ UNCHANGED <<pin, last_login, startupFrame>>

\* wallets.get(&current_wallet).unwrap(), save_last_login(..)?, and
\* Client::connect(..).await?: the command loop is entered.
StartLogin(saved, connected) ==
    /\ pc = "login"
    /\ IF current_wallet \notin DOMAIN wallets
       THEN Abort("panic: unwrap on None") /\ last_login' = last_login
       ELSE IF ~saved THEN Abort("Error") /\ last_login' = last_login
       ELSE /\ last_login' = current_wallet
            /\ IF ~connected THEN Abort("Error")
               ELSE pc' = "prompt" /\ printed' = <<"Connected to node">>
    /\ UNCHANGED <<wallets, current_wallet, pin, file, startupFrame>>

CreateNames == {NameA, NameB, NameOverLimit}

CreateOrders(name) == Orders(DOMAIN wallets \cup {name})

StartupNext ==
    \/ \E entered \in PinInputs : StartReadPin(entered)
    \/ StartLoad
    \/ \E entered \in PinInputs : StartConfirmPin(entered)
    \/ \E choice \in Choices : StartChoose(choice)
    \/ \E name \in {NameEmpty, NameA, NameB, NameEuro} : StartSelect(name)
    \/ \E name \in CreateNames, key_input \in KeyInputs, nonce \in Nonces,
          outcome \in FsOutcomes :
           \E order \in CreateOrders(name) : StartCreate(name, key_input, order, nonce, outcome)
    \/ \E saved \in BOOLEAN, connected \in BOOLEAN : StartLogin(saved, connected)

SpecStartup == StartupInit /\ [][StartupNext]_vars

(***************************************************************************)
(* One session after another: the wallet commands of a session, its end,   *)
(* and the next start of the program, which finds the vault file and the   *)
(* last-login file as the session before left them.                        *)
(***************************************************************************)
\* The program is started again: main's locals are new, the files stay.
Restart ==
    /\ pc = "exited"
    /\ pc' = "read_pin"
    /\ wallets' = EmptyMap
    /\ current_wallet' = NameEmpty
    /\ pin' = ""
    /\ used_session_inputs' = <<>>
    /\ command' = NoCommand
    /\ pending' = NoPending
    /\ calls' = <<>>
    /\ printed' = <<>>
    /\ used_at_start' = <<>>
    /\ UNCHANGED <<file, last_login, histVars, codecVars>>

SessionsNext ==
    \/ Quit
    \/ NextLine
    \/ \E args \in WalletArgLists : WalletDelete(args)
    \/ \E args \in WalletArgLists : WalletSwitch(args)
    \/ Restart
    \/ StartupNext

SpecSessions == Init /\ [][SessionsNext]_vars

(***************************************************************************)
(* Properties of the send flow, checked under Spec.                        *)
(***************************************************************************)
InputsOfSubmitted(i) == Range(submitted[i].inputs)

SessionSpentSet == Range(used_session_inputs)

SpentAtStart == Range(used_at_start)

CallCount(call) == Cardinality({i \in DOMAIN calls : calls[i] = call})

\* C2: when a send has polled the pending pool, it polled it once; if the
\* submitted transaction's identifier was in the pool, every input of the
\* transaction is in SessionSpentSet, and if it was not, SessionSpentSet is
\* what it was before the send.
C2_VerifyCommitsOnlyWhenPresent ==
    pending.mempool.some =>
        /\ CallCount("get_mempool") = 1
        /\ IF pending.tx_id.val \in pending.mempool.val
           THEN Range(pending.transaction.val.inputs) \subseteq SessionSpentSet
           ELSE used_session_inputs = used_at_start

\* A send after an accepted one polled the pool and did not find its
\* transaction there.
C2_Witness ==
    /\ pc = "returned"
    /\ pending.mempool.some
    /\ pending.tx_id.val \notin pending.mempool.val
    /\ used_session_inputs # <<>>

AllExcluded(candidates) ==
    candidates # {} /\ \A k \in candidates : TransactionInput(k) \in SpentAtStart

\* C3: a transaction built by a send contains no input that was in
\* SessionSpentSet when the send was made, and when the ledger lists only
\* outputs that are in SessionSpentSet the build fails and the send ends
\* without a submission.
C3_BuildExcludesSessionSpent ==
    /\ pending.transaction.some =>
           Range(pending.transaction.val.inputs) \cap SpentAtStart = {}
    /\ (command.cmd = "send" /\ AllExcluded(pending.candidates)) =>
           /\ ~pending.transaction.some
           /\ pc = "returned"
           /\ "submit_transaction" \notin Range(calls)

\* The ledger listed outputs, all of them spent in this session, and the
\* build failed.
C3_Witness ==
    /\ pc = "returned"
    /\ command.cmd = "send"
    /\ AllExcluded(pending.candidates)
    /\ ~pending.transaction.some

PinMismatch ==
    /\ pending.confirm.some
    /\ pending.confirm.val.some
    /\ pending.confirm.val.val # pin

\* C4: when the PIN entered at the confirmation prompt of a send differs from
\* the session's PIN, the send returns without calling submit_transaction and
\* SessionSpentSet is what it was before the command.
C4_ConfirmMismatchAborts ==
    PinMismatch =>
        /\ pc = "returned"
        /\ "submit_transaction" \notin Range(calls)
        /\ used_session_inputs = used_at_start

\* A send in a session that has spent outputs was refused at the prompt.
C4_Witness ==
    /\ PinMismatch
    /\ "compute_pow" \in Range(calls)
    /\ used_session_inputs # <<>>

\* C5: SessionSpentSet only grows: every output identifier in it before a
\* step of any command is in it after the step.
C5_AppendOnly == [][SessionSpentSet \subseteq Range(used_session_inputs')]_vars

\* A wallet was deleted in a session that has spent outputs.
C5_Witness ==
    /\ pc = "returned"
    /\ command.cmd = "wallet"
    /\ "persist" \in Range(calls)
    /\ used_session_inputs # <<>>

\* The pairs (receiver, amount) of an argument list.
PairStarts(args) == {k \in 1..Len(args) : k % 2 = 1 /\ k + 1 <= Len(args)}

\* An argument list send must refuse: an odd number of arguments, no pair, a
\* receiver that is no address, an amount that is no number.
Malformed(args) ==
    \/ Len(args) % 2 # 0
    \/ Len(args) < 2
    \/ \E k \in PairStarts(args) :
           ~new_from_base36(args[k]).some \/ ~ParseF64(args[k + 1]).some

\* No collaborator was called and nothing changed but the command's record.
AbortsWhole ==
    /\ pc' = "returned"
    /\ calls' = <<>>
    /\ UNCHANGED <<vaultVars, used_session_inputs>>

\* C6, as claimed: the step that reads a send with a malformed argument list
\* returns without invoking the builder, the difficulty query, the proof of
\* work or submit_transaction, and leaves the vault and SessionSpentSet as
\* they were.
C6_MalformedSendAborts ==
    [][(pc = "prompt" /\ command'.cmd = "send" /\ Malformed(command'.args))
           => AbortsWhole]_vars

\* An amount that is a number and is zero or negative.
NonPositive(tok) ==
    LET amount == ParseF64(tok) IN amount.some /\ (amount.val.neg \/ amount.val.num = 0)

\* C7, as claimed: the step that reads a send with an amount that is zero or
\* negative returns without calling the builder, and every amount of a
\* payment list handed to the builder is strictly positive.
C7_NonPositiveAmountRejected ==
    [][(pc = "prompt" /\ command'.cmd = "send") =>
           /\ (\E k \in PairStarts(command'.args) : NonPositive(command'.args[k + 1]))
                  => (pc' = "returned" /\ calls' = <<>>)
           /\ "build_transaction" \in Range(calls') =>
                  \A i \in DOMAIN pending'.payments : pending'.payments[i][2] > 0]_vars

(***************************************************************************)
(* Properties of the codec, checked under SpecCodec.                       *)
(***************************************************************************)
NamesFit == \A name \in DOMAIN wallets : Len(name) <= 255

\* C8: a vault whose names are at most 255 bytes long encrypts, and what
\* decrypt_wallets makes of the blob under the same PIN is that vault: the
\* same names with the same keys.
C8_RoundTrip ==
    /\ (pc # "codec" /\ NamesFit) => blob.some
    /\ (pc = "decrypted" /\ try_pin = pin) => loaded = Some(wallets)

\* A vault of two wallets, one named by the empty string and one by a name
\* of 255 bytes, came back from its blob.
C8_Witness ==
    /\ pc = "decrypted"
    /\ try_pin = pin
    /\ DOMAIN wallets = {NameEmpty, NameAtLimit}
    /\ loaded.some

\* C9: decrypt_wallets under a PIN other than the one the blob was encrypted
\* under returns None.
C9_WrongPinFails == (pc = "decrypted" /\ try_pin # pin) => loaded = None

\* A blob of a vault with a wallet was given to decrypt_wallets with another
\* PIN.
C9_Witness ==
    /\ pc = "decrypted"
    /\ try_pin # pin
    /\ DOMAIN wallets # {}

\* C10: encrypt_wallets returns a blob exactly when every name of the vault
\* is at most 255 bytes long.
C10_NameLengthBoundary == pc # "codec" => (blob.some <=> NamesFit)

\* A vault with a name of exactly 255 bytes was encrypted.
C10_Witness ==
    /\ pc = "encrypted"
    /\ NameAtLimit \in DOMAIN wallets
    /\ blob.some

\* C11: decrypt_wallets returns None for every blob shorter than 12 bytes,
\* without getting as far as cipher.decrypt, and returns None for a blob that
\* encrypt_wallets produced and that lost its last byte, under any PIN.
C11_TruncatedBlobFails ==
    pc = "decrypted_truncated" =>
        /\ (DataLen(blob.val) < 12 \/ blob.val.ct.n = Len(blob.val.ct.pt) + TagLen - 1)
               => loaded = None
        /\ DataLen(blob.val) < 12 => calls = <<>>

\* The blob of a vault with a wallet lost its last byte and was read back
\* under the PIN it was encrypted with.
C11_Witness ==
    /\ pc = "decrypted_truncated"
    /\ try_pin = pin
    /\ DOMAIN wallets # {}
    /\ blob.val.ct.n = Len(blob.val.ct.pt) + TagLen - 1

(***************************************************************************)
(* Properties of the vault commands, checked under Spec.                   *)
(***************************************************************************)
IsDelete(cmd) == cmd.cmd = "wallet" /\ Len(cmd.args) > 0 /\ cmd.args[1] = TokDelete

\* The wallet a delete names: its second argument, else the current wallet.
DeleteTarget(cmd) == IF Len(cmd.args) > 1 THEN cmd.args[2] ELSE current_wallet

\* C12: the step that handles a wallet delete naming a wallet that is not in
\* the vault, or for which a PIN other than the session's is entered, leaves
\* the in-memory vault, the current wallet and the vault file as they were.
C12_DeleteErrorBeforeMutation ==
    [][(/\ pc = "prompt"
        /\ IsDelete(command')
        /\ \/ DeleteTarget(command') \notin DOMAIN wallets
           \/ /\ pending'.confirm.some
              /\ pending'.confirm.val.some
              /\ pending'.confirm.val.val # pin)
       => UNCHANGED <<wallets, current_wallet, file>>]_vars

\* A delete of a wallet of the vault was refused for its PIN.
C12_Witness ==
    /\ pc = "returned"
    /\ IsDelete(command)
    /\ PinMismatch
    /\ DeleteTarget(command) \in DOMAIN wallets

\* What the vault file holds for a reader that knows the PIN p.
DiskVault(p) == IF file.some THEN decrypt_wallets(file.val, p) ELSE None

\* C13, as claimed: wherever the next command can be accepted, the vault file
\* decrypts under the session's PIN to exactly the in-memory vault.
C13_DiskIsMemoryAtPrompt ==
    pc \in {"prompt", "returned"} => DiskVault(pin) = Some(wallets)

\* The calls whose failure is a RemoteError.
RemoteCalls ==
    {"get_balance", "get_available_transaction_outputs", "get_transactions_of_address",
     "get_transaction", "get_transaction_difficulty", "compute_pow",
     "submit_transaction", "get_mempool"}

\* The command in progress stopped at a ledger call: the call failed.
EndedByRemoteError ==
    pc = "exited" /\ calls # <<>> /\ calls[Len(calls)] \in RemoteCalls

\* C15, as claimed: the failure of a ledger call (balance, available,
\* history, tx-info, difficulty, proof of work, submit, pool poll) does not
\* end the session: the process has not exited after it.
C15_RemoteErrorKeepsSession == ~EndedByRemoteError

\* C16: the step of a send at which the builder returns an error ends the
\* send: the handler returns having called nothing but the builder (no
\* difficulty query, proof of work, PIN prompt or submit_transaction), and
\* the vault, the current wallet, the vault file and SessionSpentSet are
\* what they were, SessionSpentSet being what it was when the send began.
C16_BuildFailureAborts ==
    [][(pc = "send_build" /\ ~pending'.transaction.some) =>
           /\ pc' = "returned"
           /\ calls' = <<"build_transaction">>
           /\ used_session_inputs' = used_at_start
           /\ UNCHANGED <<vaultVars, used_session_inputs, histVars>>]_vars

\* The builder failed although the ledger listed an output that this session
\* has not spent (insufficient funds).
C16_Witness ==
    /\ pc = "returned"
    /\ command.cmd = "send"
    /\ calls = <<"build_transaction">>
    /\ ~pending.transaction.some
    /\ \E k \in pending.candidates : TransactionInput(k) \notin SessionSpentSet

\* The calls of a send that runs to its end, in order.
SendOrder ==
    <<"build_transaction", "get_transaction_difficulty", "compute_pow", "read_pin",
      "submit_transaction", "get_mempool">>

\* C18: the calls a send has made are an initial part of: build, difficulty,
\* proof of work, PIN prompt, submit, pool poll, each at most once; when
\* submit_transaction was called, the builder had returned a transaction,
\* the proof of work had given it its identifier and the PIN entered was the
\* session's; when the pool was polled, or SessionSpentSet differs from what
\* it was when the send began, submit_transaction had returned without error.
C18_SendOrdering ==
    command.cmd = "send" =>
        /\ Len(calls) <= Len(SendOrder)
        /\ calls = SubSeq(SendOrder, 1, Len(calls))
        /\ "submit_transaction" \in Range(calls) =>
               /\ pending.transaction.some
               /\ pending.tx_id.some
               /\ pending.confirm = Some(Some(pin))
        /\ ("get_mempool" \in Range(calls) \/ used_session_inputs # used_at_start) =>
               /\ calls = SendOrder
               /\ pending.status = Some(TRUE)

\* A send ran to its end and its inputs were added to SessionSpentSet.
C18_Witness ==
    /\ pc = "returned"
    /\ command.cmd = "send"
    /\ calls = SendOrder
    /\ used_session_inputs # used_at_start

\* What a vault file f holds for a reader that knows the PIN p.
FileVault(f, p) == IF f.some THEN decrypt_wallets(f.val, p) ELSE None

\* A PIN prompt returned the digits p.
Entered(answer, p) == answer = Some(Some(p))

\* A PIN prompt returned digits other than p.
EnteredOther(answer, p) == answer.some /\ answer.val.some /\ answer.val.val # p

\* C19, as claimed: the change-pin step in which the current PIN is entered
\* correctly and the new PIN identically twice ends the session with a vault
\* file that decrypts under the new PIN to the in-memory vault and, when the
\* PINs differ, not under the old one; the step in which the current PIN is
\* wrong or the two new entries differ leaves vault file, in-memory vault and
\* session PIN as they were and returns to the prompt.
C19_ChangePin ==
    [][(pc = "prompt" /\ command'.cmd = "change-pin") =>
           /\ \A new \in Pins :
                  (/\ Entered(pending'.confirm, pin)
                   /\ Entered(pending'.new, new)
                   /\ Entered(pending'.again, new)) =>
                      /\ pc' = "exited"
                      /\ FileVault(file', new) = Some(wallets')
                      /\ new # pin => FileVault(file', pin) = None
           /\ (\/ EnteredOther(pending'.confirm, pin)
               \/ \E new \in Pins :
                      Entered(pending'.new, new) /\ EnteredOther(pending'.again, new)) =>
                  /\ pc' = "returned"
                  /\ UNCHANGED <<wallets, file, pin>>]_vars

(***************************************************************************)
(* Properties of saving the vault, checked under SpecPersist.              *)
(***************************************************************************)
\* C14, as claimed: a reader of the vault file, at whatever instant of a
\* save it reads, gets the complete blob the file held before the save or
\* the complete blob the save writes, never an empty or partial file.
C14_ReaderSeesWholeBlob ==
    seen.some => \/ seen.val \in {None, PreviousBlob(pin)}
                 \/ blob.some /\ seen.val = blob

(***************************************************************************)
(* Properties of startup, checked under SpecStartup.                       *)
(***************************************************************************)
\* The file does not give a vault under the PIN p.
Undecryptable(f, p) == f.some /\ ~decrypt_wallets(f.val, p).some

\* C17: at startup a missing vault file gives the empty vault and startup
\* goes on; a vault file that does not decrypt under the entered PIN ends
\* startup at the load, with the file as it was; and no step of startup
\* changes a vault file that does not decrypt under the entered PIN.
C17_WrongPinNeverOverwrites ==
    [][/\ (pc = "load_wallets" /\ ~file.some) =>
              (wallets' = EmptyMap /\ pc' # "exited")
       /\ (pc = "load_wallets" /\ Undecryptable(file, pin)) =>
              (pc' = "exited" /\ file' = file /\ wallets' = EmptyMap)
       /\ Undecryptable(file, pin) => file' = file]_vars

\* Startup ended at the load of a vault file that holds wallets under another
\* PIN than the one entered.
C17_Witness ==
    /\ pc = "exited"
    /\ pin = OtherPin
    /\ printed = <<"Failed to decrypt wallets (wrong PIN?)">>
    /\ file.some
    /\ decrypt_wallets(file.val, SessionPin) = Some(SessionVault)

(***************************************************************************)
(* Properties of the record walk, checked under SpecWalk.                  *)
(***************************************************************************)
\* The name a record's name bytes are read as.
Decoded(name) == IF name = NameInvalid THEN Replacement ELSE name

\* The lengths at which a buffer of the records rs ends with a whole record.
Boundaries(rs) == {Len(Concat(SubSeq(rs, 1, j), 1)) : j \in 0..Len(rs)}

\* The mapping of the first j records of rs: one entry per name, with the
\* key of the last record of that name.
LastWins(rs, j) ==
    [name \in {Decoded(rs[i].name) : i \in 1..j} |->
        LET last == CHOOSE i \in 1..j :
                        /\ Decoded(rs[i].name) = name
                        /\ \A h \in (i + 1)..j : Decoded(rs[h].name) # name
        IN rs[last].key]

\* The number of whole records in a buffer of n bytes that begins rs.
WholeRecords(rs, n) == CHOOSE j \in 0..Len(rs) : Len(Concat(SubSeq(rs, 1, j), 1)) = n

\* C20: the record walk accepts the beginning of a sequence of records
\* exactly when it ends with a whole record (it fails when it ends in a lone
\* length byte or with fewer than N + 32 bytes after a length byte N), and
\* then returns one entry per name, with the key of the last record of that
\* name.
C20_RecordWalk ==
    pc = "walked" =>
        LET plaintext == blob.val.ct.pt
            n == Len(plaintext)
        IN \A rs \in WalkRecordLists :
               (n <= Len(Concat(rs, 1)) /\ plaintext = SubSeq(Concat(rs, 1), 1, n)) =>
                   IF n \in Boundaries(rs)
                   THEN loaded = Some(LastWins(rs, WholeRecords(rs, n)))
                   ELSE loaded = None

\* A buffer of two records of one name with different keys was walked.
C20_Witness ==
    /\ pc = "walked"
    /\ blob.val.ct.pt = Record(NameA, Key1) \o Record(NameA, Key2)
    /\ loaded.some

(***************************************************************************)
(* Properties across sessions, checked under SpecSessions.                 *)
(***************************************************************************)
\* C21, as claimed: once a wallet is selected at login, and at every prompt
\* of the command loop after it, the current wallet names an entry of the
\* vault.
C21_CurrentWalletInVault ==
    pc \in {"login", "prompt", "returned"} => current_wallet \in DOMAIN wallets

(***************************************************************************)
(* Properties of wallet creation at startup, checked under SpecStartup.    *)
(***************************************************************************)
\* C22, as claimed: when create_wallet is given a name that encrypt_wallets
\* refuses (longer than 255 bytes) and a vault file with wallets in it
\* exists, the file after the failed save still decrypts under the session
\* PIN to the vault as it was before the name was entered.
C22_FailedEncryptionKeepsFile ==
    [][(/\ pc = "create_wallet"
        /\ file.some
        /\ DOMAIN wallets # {}
        /\ \E name \in DOMAIN wallets' : NameTooLong(name)) =>
           FileVault(file', pin) = Some(wallets)]_vars

=============================================================================
